---------------------------- MODULE Spec2Model ----------------------------
(***************************************************************************)
(* Model of the soil-moisture-sensor firmware:                             *)
(*   - ArrDeque<T, N> (firmware/src/arr_deque.rs), the fixed-capacity      *)
(*     overwriting ring buffer over MaybeUninit slots;                     *)
(*   - the wake cycle main/run/send_values/go_to_sleep                     *)
(*     (firmware/src/main.rs) over the RTC-retained MEASUREMENTS deque.    *)
(*                                                                         *)
(* Two specifications:                                                     *)
(*   SpecDeque  arbitrary overwriting_push_back / pop_front / iter calls   *)
(*              on one ArrDeque whose capacity is drawn in Init, and its   *)
(*              drop;                                                      *)
(*   Spec       the wake cycles of the device (LiveSpec adds the fairness  *)
(*              of the controller's own steps).                            *)
(***************************************************************************)
EXTENDS Integers, Sequences, FiniteSets, TLC

(***************************************************************************)
(* Bounds of the model.                                                    *)
(***************************************************************************)
\* capacities N of the ArrDeque under test are 1..MaxCap
MaxCap == 5
\* pushes made on the ArrDeque under test since new()
MaxPush == 14
\* drains of the ArrDeque under test that are counted
MaxDrains == 2
\* wake cycles after a cold boot
MaxCycles == 4
\* the model's MAX_RECORDED_MEASUREMENTS (main.rs line 27 sets 1000)
MAX_RECORDED_MEASUREMENTS == 3
\* the model's MIN_RECORDED_MEASUREMENTS (main.rs line 26 sets 6)
MIN_RECORDED_MEASUREMENTS == 2

(***************************************************************************)
(* Program constants.                                                      *)
(***************************************************************************)
\* MEASUREMENT_INTERVAL, in seconds
MEASUREMENT_INTERVAL == 3600

(***************************************************************************)
(* MaybeUninit<T>: a slot is <<>> (uninitialized, or its value moved out)  *)
(* or <<v>> (holds the live value v).  Option<T> is modelled the same way: *)
(* None is <<>>, Some(x) is <<x>>.                                         *)
(***************************************************************************)
uninit == <<>>

write(value) == <<value>>

\* assume_init_read / assume_init_ref: the value of an initialized slot; on
\* an uninitialized slot the read is undefined behaviour and may produce any
\* value of the type (the set U).
assume_init(slot, U) == IF slot = uninit THEN U ELSE {slot[1]}

\* The outcomes of reading every slot of a sequence of slots.
assume_init_all(slots, U) ==
    IF \A i \in 1..Len(slots) : slots[i] # uninit
    THEN {[i \in 1..Len(slots) |-> slots[i][1]]}
    ELSE {s \in [1..Len(slots) -> U] :
             \A i \in 1..Len(slots) : s[i] \in assume_init(slots[i], U)}

(***************************************************************************)
(* ArrDeque<T, N>                                                          *)
(***************************************************************************)
\* The const generic N of a deque value: the number of slots of arr.
Cap(d) == Cardinality(DOMAIN d.arr)

new(N) == [full |-> FALSE, start |-> 0, end |-> 0,
           arr |-> [i \in 0..(N - 1) |-> uninit]]

\* len with the wrapped case (end < start) computed as if it were not wrapped.
len_no_wrap(d) ==
    IF d.full THEN Cap(d)
    ELSE IF d.end >= d.start THEN d.end - d.start
    ELSE d.start - d.end

len(d) ==
    IF d.full THEN Cap(d)
    ELSE IF d.end >= d.start THEN d.end - d.start
    ELSE Cap(d) - d.start + d.end

is_empty(d) == ~d.full /\ d.start = d.end

\* The increment without the branch that wraps.
advance_no_wrap(idx, N) == idx + 1

\* The branch-based increment of an index (lines 41-45, 56-60, 105-109).
advance(idx, N) == IF idx < N - 1 THEN idx + 1 ELSE 0

\* pop_front without line 61 (full is left as it was).
pop_front_keeps_full(d) ==
    IF is_empty(d) THEN [d |-> d, ret |-> <<>>]
    ELSE LET pos == d.start
         IN  [d |-> [d EXCEPT !.start = advance(d.start, Cap(d)),
                              !.arr[pos] = uninit],
              ret |-> <<d.arr[pos]>>]

\* pop_front without the early return of lines 50-52.
pop_front_no_empty_check(d) ==
    LET pos == d.start
    IN  [d |-> [d EXCEPT !.start = advance(d.start, Cap(d)),
                         !.full = FALSE,
                         !.arr[pos] = uninit],
         ret |-> <<d.arr[pos]>>]

\* pop_front: [d |-> the deque after the call,
\*             ret |-> None, or Some(the slot that assume_init_read reads)].
\* The slot read is moved out of: it holds no live value afterwards.
pop_front(d) ==
    IF is_empty(d) THEN [d |-> d, ret |-> <<>>]
    ELSE LET pos == d.start
         IN  [d |-> [d EXCEPT !.start = advance(d.start, Cap(d)),
                              !.full = FALSE,
                              !.arr[pos] = uninit],
              ret |-> <<d.arr[pos]>>]

\* overwriting_push_back without the eviction of lines 36-38.
overwriting_push_back_no_evict(d, value) ==
    LET e == advance(d.end, Cap(d))
    IN  [d EXCEPT !.arr[d.end] = write(value),
                  !.end = e,
                  !.full = (d.start = e)]

\* lines 36-38: a full deque pops its front; the Option returned is dropped
\* on the spot.  [d |-> the deque before the write, ret |-> None, or
\* Some(the slot read)].
push_evict(d) == IF d.full THEN pop_front(d) ELSE [d |-> d, ret |-> <<>>]

overwriting_push_back(d, value) ==
    LET d1 == push_evict(d).d
        e  == advance(d1.end, Cap(d1))
    IN  [d1 EXCEPT !.arr[d1.end] = write(value),
                   !.end = e,
                   !.full = (d1.start = e)]

\* Drop (lines 72-76): pop_front until it returns None.  [d |-> the deque
\* left, rets |-> the slots read, in the order read].  A drained deque pops
\* at most N times; fuel keeps the operator total where it never would end.
RECURSIVE drop_loop(_, _)
drop_loop(d, fuel) ==
    LET r == pop_front(d)
    IN  IF r.ret = <<>> \/ fuel = 0 THEN [d |-> r.d, rets |-> <<>>]
        ELSE LET rest == drop_loop(r.d, fuel - 1)
             IN  [d |-> rest.d, rets |-> <<r.ret[1]>> \o rest.rets]

\* An ArrDeque without the Drop impl: the elements are not dropped.
drop_nothing(d) == [d |-> d, rets |-> <<>>]

drop(d) == drop_loop(d, Cap(d) + 1)

(***************************************************************************)
(* Iter<'a, T, N>: the iterator state is [first, position]; the deque it   *)
(* borrows is passed along.                                                *)
(***************************************************************************)
\* Iter::new with first: true whatever the deque holds.
Iter_new_first_always(d) == [first |-> TRUE, position |-> d.start]

Iter_new(d) == [first |-> ~is_empty(d), position |-> d.start]

\* next: [it |-> the iterator after the call,
\*        ret |-> None, or Some(the slot that assume_init_ref reads)].
Iter_next(it, d) ==
    LET pos == it.position
    IN  IF ~it.first /\ pos = d.end
        THEN [it |-> it, ret |-> <<>>]
        ELSE [it |-> [first |-> FALSE, position |-> advance(it.position, Cap(d))],
              ret |-> <<d.arr[pos]>>]

\* collect(): next() called until it returns None.  An iteration of a deque
\* visits at most N positions before position = end again; fuel keeps the
\* operator total on records where it never would.
RECURSIVE collect(_, _, _)
collect(it, d, fuel) ==
    LET r == Iter_next(it, d)
    IN  IF r.ret = <<>> \/ fuel = 0 THEN <<>>
        ELSE <<r.ret[1]>> \o collect(r.it, d, fuel - 1)

\* iter(): the slots the iteration reads, oldest first.
iter(d) == collect(Iter_new(d), d, Cap(d) + 1)

(***************************************************************************)
(* The device (main.rs).                                                   *)
(*                                                                         *)
(* Program state                                                           *)
(*   MEASUREMENTS    the ArrDeque in RTC memory (.rtc.data)                *)
(*   pc              where main/run stands                                 *)
(*   clock           slow_clock_seconds(): the RTC clock, in seconds       *)
(*   reset_reason    ResetReason::get(): "PowerOn" or "DeepSleep"          *)
(*   result          what run() returned: <<>> not yet, <<"Ok">>, or       *)
(*                   <<"Err", site>>                                       *)
(*   measurements    the Vec cloned from MEASUREMENTS.iter() (line 159)    *)
(*   status          http_client.status() of this cycle's POST, 0 if none  *)
(*   timer           the armed wake-up delay, in seconds (0: not armed)    *)
(*   wifi_started, wifi_connected, ip_assigned                             *)
(*                   the messages queued in the three mpsc channels        *)
(*   sntp_status     whether the time sync has completed                   *)
(*   events          the events the event loop has published in this cycle *)
(* History of the current cycle, for the claims                            *)
(*   calls           the collaborator calls made: "wifi_start",            *)
(*                   "wifi_connect", "sntp", "post"                        *)
(*   appended        <<>> or <<the record pushed in this cycle>>           *)
(*   startStore      MEASUREMENTS when the cycle began                     *)
(*   sleepStore      MEASUREMENTS at the last power-off                    *)
(*   prevOk          whether the previous cycle's POST returned 2xx        *)
(*   steps           the network steps run has made in this cycle, in      *)
(*                   order: calls and receipts                             *)
(*   sent            what the subscribed closures have sent into each      *)
(*                   channel in this cycle, in order                       *)
(*   time_offset     <<>> or <<the offset computed at line 157>>           *)
(*   request         <<>> or <<the POST of this cycle: its body and its    *)
(*                   Content-Length header>>                               *)
(* History since the cold boot, for the claims                             *)
(*   failed          whether run returned an error in an earlier cycle     *)
(*   sampled         the records appended so far, in order                 *)
(*   uploaded        the records of the POSTs answered 2xx so far          *)
(***************************************************************************)
VARIABLES MEASUREMENTS, pc, clock, reset_reason, result, measurements,
          status, timer, wifi_started, wifi_connected, ip_assigned,
          sntp_status, events, calls, appended, startStore, sleepStore,
          prevOk, steps, sent, time_offset, request, failed, sampled,
          uploaded

chans == <<wifi_started, wifi_connected, ip_assigned, sntp_status, events>>

ghosts == <<calls, appended, startStore, sleepStore, prevOk>>

history == <<steps, sent, time_offset, request, failed, sampled, uploaded>>

cvars == <<MEASUREMENTS, pc, clock, reset_reason, result, measurements,
           status, timer, chans, ghosts, history>>

(***************************************************************************)
(* SpecDeque: calls on one ArrDeque.                                       *)
(*   deque    the ArrDeque under test                                      *)
(*   hist     every value pushed since new(), in order                     *)
(*   anyPop   whether pop_front was called since new()                     *)
(*   evicted  whether the last call was a push into a full deque           *)
(*   snap     what the last iter() yielded; snapValid: no push since       *)
(*   popLog   the values pop_front returned since the last iter()/push     *)
(*   lastPop  the result of the last call if it was pop_front:             *)
(*            <<>> none, <<"None">>, <<"Some", v>>                         *)
(*   drains   how many pop_front calls took the last element (counted up   *)
(*            to MaxDrains)                                                *)
(*   released the values handed out or destroyed so far, in order          *)
(*   ways     how values were released so far: "pop_front" (returned to    *)
(*            the caller), "evict" (destroyed by a push), "drop"           *)
(*   dropped  whether the deque was dropped (no call can follow)           *)
(*   uninitRead  whether some read so far was of a slot holding no value   *)
(*   liveWrite   whether some write so far was to a slot holding a value   *)
(***************************************************************************)
VARIABLES deque, hist, anyPop, evicted, snap, snapValid, popLog, lastPop,
          drains, released, ways, dropped, uninitRead, liveWrite

dvars == <<deque, hist, anyPop, evicted, snap, snapValid, popLog, lastPop,
           drains, released, ways, dropped, uninitRead, liveWrite>>

vars == <<cvars, dvars>>

\* The k-th value pushed is k: T is a type parameter and no code of ArrDeque
\* looks into a value, so distinct values are the general case.
Values == 1..MaxPush

DqInit(Caps) ==
    /\ \E N \in Caps : deque = new(N)
    /\ hist = <<>>
    /\ anyPop = FALSE
    /\ evicted = FALSE
    /\ snap = <<>>
    /\ snapValid = FALSE
    /\ popLog = <<>>
    /\ lastPop = <<>>
    /\ drains = 0
    /\ released = <<>>
    /\ ways = {}
    /\ dropped = FALSE
    /\ uninitRead = FALSE
    /\ liveWrite = FALSE

DqPush ==
    /\ UNCHANGED cvars
    /\ ~dropped
    /\ Len(hist) < MaxPush
    /\ LET v == Len(hist) + 1
       IN  /\ deque' = overwriting_push_back(deque, v)
           /\ hist' = Append(hist, v)
    /\ LET ev == push_evict(deque)
       IN  /\ IF ev.ret = <<>>
              THEN UNCHANGED <<released, ways, uninitRead>>
              ELSE /\ \E x \in assume_init(ev.ret[1], Values) :
                         released' = Append(released, x)
                   /\ ways' = ways \cup {"evict"}
                   /\ uninitRead' = (uninitRead \/ ev.ret[1] = uninit)
           /\ liveWrite' = (liveWrite \/ ev.d.arr[ev.d.end] # uninit)
    /\ evicted' = deque.full
    /\ snap' = <<>>
    /\ snapValid' = FALSE
    /\ popLog' = <<>>
    /\ lastPop' = <<>>
    /\ UNCHANGED <<anyPop, drains, dropped>>

DqPop ==
    LET r == pop_front(deque)
    IN  /\ UNCHANGED cvars
        /\ ~dropped
        /\ deque' = r.d
        /\ anyPop' = TRUE
        /\ evicted' = FALSE
        /\ drains' = IF ~is_empty(deque) /\ is_empty(r.d) /\ drains < MaxDrains
                     THEN drains + 1 ELSE drains
        /\ IF r.ret = <<>>
           THEN /\ lastPop' = <<"None">>
                /\ UNCHANGED <<popLog, released, ways, uninitRead>>
           ELSE /\ \E v \in assume_init(r.ret[1], Values) :
                      /\ lastPop' = <<"Some", v>>
                      /\ popLog' = Append(popLog, v)
                      /\ released' = Append(released, v)
                /\ ways' = ways \cup {"pop_front"}
                /\ uninitRead' = (uninitRead \/ r.ret[1] = uninit)
        /\ UNCHANGED <<hist, snap, snapValid, dropped, liveWrite>>

DqIter ==
    /\ UNCHANGED cvars
    /\ ~dropped
    /\ \E s \in assume_init_all(iter(deque), Values) : snap' = s
    /\ uninitRead' =
          (uninitRead \/ \E i \in 1..Len(iter(deque)) : iter(deque)[i] = uninit)
    /\ snapValid' = TRUE
    /\ popLog' = <<>>
    /\ lastPop' = <<>>
    /\ UNCHANGED <<deque, hist, anyPop, evicted, drains, released, ways,
                   dropped, liveWrite>>

\* The deque goes out of scope: Drop::drop runs, and no call can follow.
DqDrop ==
    LET r == drop(deque)
    IN  /\ UNCHANGED cvars
        /\ ~dropped
        /\ dropped' = TRUE
        /\ deque' = r.d
        /\ \E s \in assume_init_all(r.rets, Values) : released' = released \o s
        /\ ways' = IF r.rets = <<>> THEN ways ELSE ways \cup {"drop"}
        /\ uninitRead' =
              (uninitRead \/ \E i \in 1..Len(r.rets) : r.rets[i] = uninit)
        /\ snap' = <<>>
        /\ snapValid' = FALSE
        /\ popLog' = <<>>
        /\ lastPop' = <<>>
        /\ evicted' = FALSE
        /\ anyPop' = TRUE
        /\ UNCHANGED <<hist, drains, liveWrite>>

DqNext == DqPush \/ DqPop \/ DqIter \/ DqDrop

(***************************************************************************)
(* The wake cycle (main.rs): the steps of main/run.                        *)
(***************************************************************************)
\* The values adc_driver.read returns (a u16).  No step of the cycle looks
\* into the value read; two values tell a record kept from one replaced.
SensorValues == {0, 1}

\* The statuses the server answers with.
StatusCodes == {199, 200, 299, 300, 500}

\* Every Measurement a slot of MEASUREMENTS could be read as.
Measurement ==
    [value : SensorValues,
     time : {k * MEASUREMENT_INTERVAL : k \in 0..MaxCycles}]

\* The records of a deque, oldest first: what iter().cloned().collect() gives
\* when every slot read is initialized.
Records(d) == CHOOSE s \in assume_init_all(iter(d), Measurement) : TRUE

\* LINE_PREFIX is fixed at build time (env!): here a short ASCII prefix.
LINE_PREFIX == <<"m", "=">>

\* What Utc::now().timestamp() returns at line 157.
UtcNow == {0, 1700000000}

DigitChars == <<"0", "1", "2", "3", "4", "5", "6", "7", "8", "9">>

\* Display of an unsigned integer: its decimal digits.
RECURSIVE fmt_unsigned(_)
fmt_unsigned(n) ==
    IF n < 10 THEN <<DigitChars[n + 1]>>
    ELSE fmt_unsigned(n \div 10) \o <<DigitChars[(n % 10) + 1]>>

\* Display of a signed integer ({} of format!).
fmt_int(i) == IF i < 0 THEN <<"-">> \o fmt_unsigned(-i) ELSE fmt_unsigned(i)

\* lines 209-214 with the device time in place of time + time_offset.
format_line_device_time(m, offset) ==
    LINE_PREFIX \o fmt_int(m.value) \o <<" ">> \o fmt_int(m.time)
       \o <<"0", "0", "0", "0", "0", "0", "0", "0", "0", "\n">>

\* lines 209-214: format!("{}{} {}000000000\n", LINE_PREFIX, m.value,
\* m.time as i64 + time_offset)
format_line(m, offset) ==
    LINE_PREFIX \o fmt_int(m.value) \o <<" ">> \o fmt_int(m.time + offset)
       \o <<"0", "0", "0", "0", "0", "0", "0", "0", "0", "\n">>

\* lines 206-216: the lines of the records, collected into one String.
RECURSIVE format_data(_, _)
format_data(ms, offset) ==
    IF ms = <<>> THEN <<>>
    ELSE format_line(Head(ms), offset) \o format_data(Tail(ms), offset)

\* lines 220-229: the request send_values makes: the body written and the
\* Content-Length header, data.len().to_string().
http_request(ms, offset) ==
    LET data == format_data(ms, offset)
    IN  [body |-> data, content_length |-> fmt_unsigned(Len(data))]

\* line 93 with the threshold off by one.
below_minimum_off_by_one(d) == len(d) < MIN_RECORDED_MEASUREMENTS - 1

\* line 93: MEASUREMENTS.len() < MIN_RECORDED_MEASUREMENTS
below_minimum(d) == len(d) < MIN_RECORDED_MEASUREMENTS

\* line 232 without its first comparison.
is_failure_status_no_lower(s) == s >= 300

\* line 232: status < 200 || status >= 300
is_failure_status(s) == s < 200 \/ s >= 300

\* line 164 assigning nothing.
cleared_store_kept(d) == d

\* line 164: MEASUREMENTS = ArrDeque::new().  The assignment drops the old
\* value (Drop pops until empty) and stores the new one.
cleared_store(d) == new(Cap(d))

\* A static in ordinary RAM: initialized again by every boot.
not_retained(d) == new(Cap(d))

\* lines 35-36: MEASUREMENTS lives in .rtc.data, which deep sleep retains:
\* what a wake from deep sleep finds there is what was left there.
rtc_retained(d) == d

CycleInit ==
    /\ MEASUREMENTS = new(MAX_RECORDED_MEASUREMENTS)
    /\ pc = "boot"
    /\ clock = 0
    /\ reset_reason = "PowerOn"
    /\ result = <<>>
    /\ measurements = <<>>
    /\ status = 0
    /\ timer = 0
    /\ wifi_started = 0
    /\ wifi_connected = <<>>
    /\ ip_assigned = 0
    /\ sntp_status = "None"
    /\ events = {}
    /\ calls = {}
    /\ appended = <<>>
    /\ startStore = new(MAX_RECORDED_MEASUREMENTS)
    /\ sleepStore = new(MAX_RECORDED_MEASUREMENTS)
    /\ prevOk = FALSE
    /\ steps = <<>>
    /\ sent = [started |-> <<>>, connected |-> <<>>, ip |-> <<>>]
    /\ time_offset = <<>>
    /\ request = <<>>
    /\ failed = FALSE
    /\ sampled = <<>>
    /\ uploaded = <<>>

\* run() returns r: its locals (subscriptions, channels, sntp, the Vec) are
\* dropped.
Return(r) ==
    /\ pc' = "exit"
    /\ result' = r
    /\ measurements' = <<>>
    /\ events' = {}
    /\ wifi_started' = 0
    /\ wifi_connected' = <<>>
    /\ ip_assigned' = 0
    /\ sntp_status' = "None"

\* lines 51-84: peripherals, drivers, clock source check, LED, sensor PWM.
Setup ==
    /\ UNCHANGED dvars
    /\ pc = "boot"
    /\ UNCHANGED history
    /\ \/ pc' = "read" /\ UNCHANGED <<result, measurements, chans>>
       \/ Return(<<"Err", "setup">>)
    /\ UNCHANGED <<MEASUREMENTS, clock, reset_reason, status, timer, ghosts>>

\* lines 86-97: the read succeeded: the record is pushed, and run returns
\* Ok when the store holds fewer than MIN_RECORDED_MEASUREMENTS records.
ReadOk ==
    /\ UNCHANGED dvars
    /\ pc = "read"
    /\ \E value \in SensorValues :
          LET m == [value |-> value, time |-> clock]
          IN  /\ MEASUREMENTS' = overwriting_push_back(MEASUREMENTS, m)
              /\ appended' = <<m>>
              /\ sampled' = Append(sampled, m)
    /\ UNCHANGED <<steps, sent, time_offset, request, failed, uploaded>>
    /\ IF below_minimum(MEASUREMENTS')
       THEN Return(<<"Ok">>)
       ELSE pc' = "wifi" /\ UNCHANGED <<result, measurements, chans>>
    /\ UNCHANGED <<clock, reset_reason, status, timer, calls, startStore,
                   sleepStore, prevOk>>

\* lines 98-100 with the failed read recorded as a zero sample.
ReadErr_records_zero ==
    /\ UNCHANGED dvars
    /\ pc = "read"
    /\ UNCHANGED history
    /\ MEASUREMENTS' =
          overwriting_push_back(MEASUREMENTS, [value |-> 0, time |-> clock])
    /\ Return(<<"Err", "read">>)
    /\ UNCHANGED <<clock, reset_reason, status, timer, ghosts>>

\* lines 98-100: the read failed.
ReadErr ==
    /\ UNCHANGED dvars
    /\ pc = "read"
    /\ UNCHANGED history
    /\ Return(<<"Err", "read">>)
    /\ UNCHANGED <<MEASUREMENTS, clock, reset_reason, status, timer, ghosts>>

\* lines 103-139: event loop, NVS, EspWifi, configuration, the channels and
\* subscriptions, esp_wifi.start().
WifiStart ==
    /\ UNCHANGED dvars
    /\ pc = "wifi"
    /\ \/ /\ pc' = "wait_started"
          /\ calls' = calls \cup {"wifi_start"}
          /\ steps' = Append(steps, "wifi_start")
          /\ UNCHANGED <<result, measurements, chans>>
       \/ Return(<<"Err", "wifi">>) /\ UNCHANGED <<calls, steps>>
    /\ UNCHANGED <<sent, time_offset, request, failed, sampled, uploaded>>
    /\ UNCHANGED <<MEASUREMENTS, clock, reset_reason, status, timer, appended,
                   startStore, sleepStore, prevOk>>

\* line 141 without the wait: run goes on whether or not a message is there.
RecvStarted_no_wait ==
    /\ UNCHANGED dvars
    /\ pc = "wait_started"
    /\ UNCHANGED wifi_started
    /\ pc' = "connect"
    /\ steps' = Append(steps, "recv_started")
    /\ UNCHANGED <<sent, time_offset, request, failed, sampled, uploaded>>
    /\ UNCHANGED <<MEASUREMENTS, clock, reset_reason, result, measurements,
                   status, timer, wifi_connected, ip_assigned, sntp_status,
                   events, ghosts>>

\* line 141: wifi_started_rx.recv() takes one message, blocking while the
\* channel is empty.
RecvStarted ==
    /\ UNCHANGED dvars
    /\ pc = "wait_started"
    /\ wifi_started > 0
    /\ wifi_started' = wifi_started - 1
    /\ pc' = "connect"
    /\ steps' = Append(steps, "recv_started")
    /\ UNCHANGED <<sent, time_offset, request, failed, sampled, uploaded>>
    /\ UNCHANGED <<MEASUREMENTS, clock, reset_reason, result, measurements,
                   status, timer, wifi_connected, ip_assigned, sntp_status,
                   events, ghosts>>

\* line 143: esp_wifi.connect()
Connect ==
    /\ UNCHANGED dvars
    /\ pc = "connect"
    /\ \/ /\ pc' = "wait_connected"
          /\ calls' = calls \cup {"wifi_connect"}
          /\ steps' = Append(steps, "wifi_connect")
          /\ UNCHANGED <<result, measurements, chans>>
       \/ Return(<<"Err", "wifi">>) /\ UNCHANGED <<calls, steps>>
    /\ UNCHANGED <<sent, time_offset, request, failed, sampled, uploaded>>
    /\ UNCHANGED <<MEASUREMENTS, clock, reset_reason, status, timer, appended,
                   startStore, sleepStore, prevOk>>

\* line 145 with the message received but not looked into.
RecvConnected_ignores_error ==
    /\ UNCHANGED dvars
    /\ pc = "wait_connected"
    /\ wifi_connected # <<>>
    /\ steps' = Append(steps, "recv_" \o Head(wifi_connected))
    /\ UNCHANGED <<sent, time_offset, request, failed, sampled, uploaded>>
    /\ IF Head(wifi_connected) \in {"Ok", "Err"}
       THEN /\ pc' = "wait_ip"
            /\ wifi_connected' = Tail(wifi_connected)
            /\ UNCHANGED <<result, measurements, wifi_started, ip_assigned,
                           sntp_status, events>>
       ELSE Return(<<"Err", "disconnected">>)
    /\ UNCHANGED <<MEASUREMENTS, clock, reset_reason, status, timer, ghosts>>

\* line 145: wifi_connected_rx.recv()?? takes one message; Err(disconnected)
\* is returned from run.
RecvConnected ==
    /\ UNCHANGED dvars
    /\ pc = "wait_connected"
    /\ wifi_connected # <<>>
    /\ steps' = Append(steps, "recv_" \o Head(wifi_connected))
    /\ UNCHANGED <<sent, time_offset, request, failed, sampled, uploaded>>
    /\ IF Head(wifi_connected) = "Ok"
       THEN /\ pc' = "wait_ip"
            /\ wifi_connected' = Tail(wifi_connected)
            /\ UNCHANGED <<result, measurements, wifi_started, ip_assigned,
                           sntp_status, events>>
       ELSE Return(<<"Err", "disconnected">>)
    /\ UNCHANGED <<MEASUREMENTS, clock, reset_reason, status, timer, ghosts>>

\* line 148 taking every message queued instead of one.
RecvIpAssigned_drains ==
    /\ UNCHANGED dvars
    /\ pc = "wait_ip"
    /\ ip_assigned > 0
    /\ \/ /\ pc' = "sntp_poll"
          /\ ip_assigned' = 0
          /\ calls' = calls \cup {"sntp"}
          /\ sntp_status' = "Reset"
          /\ steps' = steps \o <<"recv_ip", "sntp">>
          /\ UNCHANGED <<result, measurements, wifi_started, wifi_connected,
                         events>>
       \/ /\ Return(<<"Err", "sntp">>)
          /\ steps' = Append(steps, "recv_ip")
          /\ UNCHANGED calls
    /\ UNCHANGED <<sent, time_offset, request, failed, sampled, uploaded>>
    /\ UNCHANGED <<MEASUREMENTS, clock, reset_reason, status, timer, appended,
                   startStore, sleepStore, prevOk>>

\* lines 148-151: ip_assigned_rx.recv() takes one message, then
\* EspSntp::new_default() starts the time sync.
RecvIpAssigned ==
    /\ UNCHANGED dvars
    /\ pc = "wait_ip"
    /\ ip_assigned > 0
    /\ \/ /\ pc' = "sntp_poll"
          /\ ip_assigned' = ip_assigned - 1
          /\ calls' = calls \cup {"sntp"}
          /\ sntp_status' = "Reset"
          /\ steps' = steps \o <<"recv_ip", "sntp">>
          /\ UNCHANGED <<result, measurements, wifi_started, wifi_connected,
                         events>>
       \/ /\ Return(<<"Err", "sntp">>)
          /\ steps' = Append(steps, "recv_ip")
          /\ UNCHANGED calls
    /\ UNCHANGED <<sent, time_offset, request, failed, sampled, uploaded>>
    /\ UNCHANGED <<MEASUREMENTS, clock, reset_reason, status, timer, appended,
                   startStore, sleepStore, prevOk>>

\* lines 152-154: the sync has not completed: delay and poll again.
SntpPending ==
    /\ UNCHANGED dvars
    /\ pc = "sntp_poll"
    /\ sntp_status # "Completed"
    /\ UNCHANGED cvars

\* line 159 with the oldest record left out of the copy.
SntpCompleted_skips_oldest ==
    /\ UNCHANGED dvars
    /\ pc = "sntp_poll"
    /\ sntp_status = "Completed"
    /\ \E now \in UtcNow : time_offset' = <<now - clock>>
    /\ \E ms \in assume_init_all(iter(MEASUREMENTS), Measurement) :
          measurements' = IF ms = <<>> THEN ms ELSE Tail(ms)
    /\ pc' = "send"
    /\ steps' = Append(steps, "sync_completed")
    /\ UNCHANGED <<sent, request, failed, sampled, uploaded>>
    /\ UNCHANGED <<MEASUREMENTS, clock, reset_reason, result, status, timer,
                   chans, ghosts>>

\* lines 152-159: the sync has completed; the records are cloned.
SntpCompleted ==
    /\ UNCHANGED dvars
    /\ pc = "sntp_poll"
    /\ sntp_status = "Completed"
    /\ \E now \in UtcNow : time_offset' = <<now - clock>>
    /\ \E ms \in assume_init_all(iter(MEASUREMENTS), Measurement) :
          measurements' = ms
    /\ pc' = "send"
    /\ steps' = Append(steps, "sync_completed")
    /\ UNCHANGED <<sent, request, failed, sampled, uploaded>>
    /\ UNCHANGED <<MEASUREMENTS, clock, reset_reason, result, status, timer,
                   chans, ghosts>>

\* line 160 with the error of send_values discarded instead of returned by ?.
SendTransportError_discarded ==
    /\ UNCHANGED dvars
    /\ pc = "send"
    /\ calls' = calls \cup {"post"}
    /\ steps' = Append(steps, "post")
    /\ request' = <<http_request(measurements, time_offset[1])>>
    /\ UNCHANGED <<sent, time_offset, failed, sampled, uploaded>>
    /\ pc' = "clear"
    /\ UNCHANGED <<MEASUREMENTS, clock, reset_reason, result, measurements,
                   status, timer, chans, appended, startStore, sleepStore,
                   prevOk>>

\* lines 226-229: the connection, the request, the write of the body or the
\* response fails.
SendTransportError ==
    /\ UNCHANGED dvars
    /\ pc = "send"
    /\ calls' = calls \cup {"post"}
    /\ steps' = Append(steps, "post")
    /\ request' = <<http_request(measurements, time_offset[1])>>
    /\ UNCHANGED <<sent, time_offset, failed, sampled, uploaded>>
    /\ Return(<<"Err", "transport">>)
    /\ UNCHANGED <<MEASUREMENTS, clock, reset_reason, status, timer, appended,
                   startStore, sleepStore, prevOk>>

\* lines 226-242: the POST is answered with status s.
SendStatus ==
    /\ UNCHANGED dvars
    /\ pc = "send"
    /\ calls' = calls \cup {"post"}
    /\ steps' = Append(steps, "post")
    /\ request' = <<http_request(measurements, time_offset[1])>>
    /\ UNCHANGED <<sent, time_offset, failed, sampled>>
    /\ \E s \in StatusCodes :
          /\ status' = s
          /\ uploaded' = IF s \in 200..299 THEN uploaded \o measurements
                          ELSE uploaded
          /\ IF is_failure_status(s)
             THEN Return(<<"Err", "status">>)
             ELSE pc' = "clear" /\ UNCHANGED <<result, measurements, chans>>
    /\ UNCHANGED <<MEASUREMENTS, clock, reset_reason, timer, appended,
                   startStore, sleepStore, prevOk>>

\* lines 163-165 removing one record instead of all.
Clear_pops_front_only ==
    /\ UNCHANGED dvars
    /\ pc = "clear"
    /\ UNCHANGED history
    /\ MEASUREMENTS' = pop_front(MEASUREMENTS).d
    /\ Return(<<"Ok">>)
    /\ UNCHANGED <<clock, reset_reason, status, timer, ghosts>>

\* lines 161-167: the store is replaced by a new ArrDeque; run returns Ok.
Clear ==
    /\ UNCHANGED dvars
    /\ pc = "clear"
    /\ UNCHANGED history
    /\ MEASUREMENTS' = cleared_store(MEASUREMENTS)
    /\ Return(<<"Ok">>)
    /\ UNCHANGED <<clock, reset_reason, status, timer, ghosts>>

\* main with run()'s error propagated (run()?) instead of printed.
Main_propagates_error ==
    /\ UNCHANGED dvars
    /\ pc = "exit"
    /\ result = <<"Ok">>
    /\ UNCHANGED history
    /\ timer' = MEASUREMENT_INTERVAL
    /\ sleepStore' = MEASUREMENTS
    /\ pc' = "sleep"
    /\ UNCHANGED <<MEASUREMENTS, clock, reset_reason, result, measurements,
                   status, chans, calls, appended, startStore, prevOk>>

\* lines 41-47, 193-198: whatever run returned, main arms the wake-up timer
\* for MEASUREMENT_INTERVAL and starts deep sleep.
Main ==
    /\ UNCHANGED dvars
    /\ pc = "exit"
    /\ UNCHANGED history
    /\ timer' = MEASUREMENT_INTERVAL
    /\ sleepStore' = MEASUREMENTS
    /\ pc' = "sleep"
    /\ UNCHANGED <<MEASUREMENTS, clock, reset_reason, result, measurements,
                   status, chans, calls, appended, startStore, prevOk>>

\* The wake-up timer expires: the chip boots with ResetReason::DeepSleep and
\* main runs again.  RTC memory and the RTC clock are retained.
Wake ==
    /\ UNCHANGED dvars
    /\ pc = "sleep"
    /\ clock + timer <= (MaxCycles - 1) * MEASUREMENT_INTERVAL
    /\ clock' = clock + timer
    /\ MEASUREMENTS' = rtc_retained(MEASUREMENTS)
    /\ reset_reason' = "DeepSleep"
    /\ pc' = "boot"
    /\ result' = <<>>
    /\ measurements' = <<>>
    /\ prevOk' = ("post" \in calls /\ status \in 200..299)
    /\ status' = 0
    /\ timer' = 0
    /\ calls' = {}
    /\ appended' = <<>>
    /\ startStore' = MEASUREMENTS'
    /\ events' = {}
    /\ steps' = <<>>
    /\ sent' = [started |-> <<>>, connected |-> <<>>, ip |-> <<>>]
    /\ time_offset' = <<>>
    /\ request' = <<>>
    /\ failed' = (failed \/ result # <<"Ok">>)
    /\ UNCHANGED <<sampled, uploaded>>
    /\ UNCHANGED <<wifi_started, wifi_connected, ip_assigned, sntp_status,
                   sleepStore>>

(***************************************************************************)
(* The event loop's context: the subscribed closures (lines 118-137) send  *)
(* into the channels; the SNTP service completes the sync.                 *)
(***************************************************************************)
\* run has not returned: the subscriptions and the senders they own live.
Subscribed == pc \notin {"boot", "read", "wifi", "exit", "sleep"}

\* The event loop publishes event e, once in a cycle.
Publish(e) ==
    /\ Subscribed
    /\ e \notin events
    /\ events' = events \cup {e}
    /\ UNCHANGED <<MEASUREMENTS, pc, clock, reset_reason, result,
                   measurements, status, timer, sntp_status, ghosts>>
    /\ UNCHANGED <<steps, time_offset, request, failed, sampled, uploaded>>

\* lines 119-121: WifiEvent::StaStarted, published after esp_wifi.start()
StaStarted ==
    /\ UNCHANGED dvars
    /\ "wifi_start" \in calls
    /\ Publish("StaStarted")
    /\ wifi_started' = wifi_started + 1
    /\ sent' = [sent EXCEPT !.started = Append(@, "StaStarted")]
    /\ UNCHANGED <<wifi_connected, ip_assigned>>

\* lines 122-124: WifiEvent::StaConnected, published after esp_wifi.connect()
StaConnected ==
    /\ UNCHANGED dvars
    /\ "wifi_connect" \in calls
    /\ Publish("StaConnected")
    /\ wifi_connected' = Append(wifi_connected, "Ok")
    /\ sent' = [sent EXCEPT !.connected = Append(@, "Ok")]
    /\ UNCHANGED <<wifi_started, ip_assigned>>

\* lines 125-127: WifiEvent::StaDisconnected: the connection failed, or was
\* lost after it was made
StaDisconnected ==
    /\ UNCHANGED dvars
    /\ "wifi_connect" \in calls
    /\ Publish("StaDisconnected")
    /\ wifi_connected' = Append(wifi_connected, "Err")
    /\ sent' = [sent EXCEPT !.connected = Append(@, "Err")]
    /\ UNCHANGED <<wifi_started, ip_assigned>>

\* lines 133-135: IpEvent::DhcpIpAssigned or IpEvent::DhcpIp6Assigned,
\* published once the station is connected
DhcpIpAssigned ==
    /\ UNCHANGED dvars
    /\ "StaConnected" \in events
    /\ \E e \in {"DhcpIpAssigned", "DhcpIp6Assigned"} :
          /\ Publish(e)
          /\ sent' = [sent EXCEPT !.ip = Append(@, e)]
    /\ ip_assigned' = ip_assigned + 1
    /\ UNCHANGED <<wifi_started, wifi_connected>>

\* The time sync started at line 151 completes.
SntpSync ==
    /\ UNCHANGED dvars
    /\ pc = "sntp_poll"
    /\ sntp_status = "Reset"
    /\ sntp_status' = "Completed"
    /\ UNCHANGED <<MEASUREMENTS, pc, clock, reset_reason, result,
                   measurements, status, timer, wifi_started, wifi_connected,
                   ip_assigned, events, ghosts, history>>

\* The steps of main/run.
Controller ==
    \/ Setup \/ ReadOk \/ ReadErr \/ WifiStart \/ RecvStarted \/ Connect
    \/ RecvConnected \/ RecvIpAssigned \/ SntpPending \/ SntpCompleted
    \/ SendTransportError \/ SendStatus \/ Clear \/ Main

\* The steps of the hardware and of the event loop's context.
Environment ==
    \/ Wake \/ StaStarted \/ StaConnected \/ StaDisconnected
    \/ DhcpIpAssigned \/ SntpSync

\* The device after a cold boot (the ArrDeque under test is not used).
Init == CycleInit /\ DqInit({1})

Next == Controller \/ Environment

Spec == Init /\ [][Next]_vars

\* main/run is one thread that runs whenever it is not blocked in a recv.
LiveSpec == Spec /\ WF_vars(Controller)

\* An ArrDeque of any capacity 1..MaxCap under test (the device stays as
\* it is after a cold boot).
InitDeque == CycleInit /\ DqInit(1..MaxCap)

SpecDeque == InitDeque /\ [][DqNext]_vars

(***************************************************************************)
(* Claims about ArrDeque (checked under SpecDeque).                        *)
(***************************************************************************)
\* The last n elements of a sequence.
LastN(s, n) == SubSeq(s, Len(s) - n + 1, Len(s))

IsPrefix(s, t) == Len(s) <= Len(t) /\ SubSeq(t, 1, Len(s)) = s

\* What iter() yields: the outcomes of reading the slots it visits.
Yields(d) == assume_init_all(iter(d), Values)

\* C1: after N+k overwriting_push_back calls (k >= 0) on a new ArrDeque of
\* capacity N, iter() yields exactly N elements, the last N values pushed,
\* oldest first; an iteration right after a push that evicted from a full
\* buffer yields N elements.
C1_IterYieldsLastN ==
    /\ (~anyPop /\ Len(hist) >= Cap(deque)) =>
           /\ Len(iter(deque)) = Cap(deque)
           /\ Yields(deque) = {LastN(hist, Cap(deque))}
    /\ evicted => Len(iter(deque)) = Cap(deque)

\* C1 witness: capacity 3, five pushes and no pop, the last one evicting.
C1_Witness ==
    /\ Cap(deque) = 3 /\ ~anyPop /\ evicted /\ Len(hist) = 5
    /\ Yields(deque) = {SubSeq(hist, 3, 5)}

\* C9: after an iter(), len() consecutive pop_front calls return exactly the
\* elements iter() yielded, oldest first, and the next pop_front returns
\* None; also when the buffer was drained before and start/end wrapped.
C9_PopsReturnIterated ==
    snapValid =>
       /\ IsPrefix(popLog, snap)
       /\ Len(popLog) + len(deque) = Len(snap)
       /\ Yields(deque) = {SubSeq(snap, Len(popLog) + 1, Len(snap))}
       /\ (lastPop = <<"None">>) => popLog = snap
       /\ (lastPop # <<>> /\ lastPop # <<"None">>) =>
              /\ popLog # <<>>
              /\ lastPop[2] = popLog[Len(popLog)]

\* C9 witness: capacity 3, a full buffer iterated and drained after an
\* earlier drain, indices wrapped, then one more pop_front returning None.
C9_Witness ==
    /\ Cap(deque) = 3 /\ snapValid /\ drains = 2
    /\ Len(snap) = 3 /\ popLog = snap
    /\ lastPop = <<"None">>
    /\ deque.start # 0
    /\ Len(hist) = 7

\* The number of slots of d that hold a live value.
Occupied(d) == Cardinality({i \in DOMAIN d.arr : d.arr[i] # uninit})

\* C10: len() is the number of occupied slots, N if full and otherwise
\* (end - start) mod N; it never exceeds N and is 0 exactly when is_empty().
C10_LenIsOccupancy ==
    /\ len(deque) = Occupied(deque)
    /\ len(deque) = IF deque.full THEN Cap(deque)
                    ELSE (deque.end - deque.start) % Cap(deque)
    /\ len(deque) <= Cap(deque)
    /\ (len(deque) = 0) <=> is_empty(deque)

\* C10 witness: a wrapped, partly filled buffer (end < start) after pops.
C10_Witness ==
    /\ Cap(deque) = 3 /\ anyPop /\ ~deque.full
    /\ deque.end < deque.start
    /\ len(deque) = 2

\* C11: pop_front on an empty buffer returns None and leaves start, end,
\* full and every slot unchanged, in every reachable empty state: the call
\* computes that on every such state, and every pop_front step taken from
\* one leaves the buffer as it was and releases nothing.
C11_PopOnEmptyIsNoOp ==
    /\ [](is_empty(deque) => pop_front(deque) = [d |-> deque, ret |-> <<>>])
    /\ [][(is_empty(deque) /\ lastPop' # <<>>) =>
             /\ lastPop' = <<"None">>
             /\ deque' = deque
             /\ released' = released]_vars

\* C11 witness: pop_front has returned None on a buffer emptied by pops,
\* with start = end not 0.
C11_Witness ==
    /\ ~dropped /\ lastPop = <<"None">>
    /\ is_empty(deque) /\ deque.start # 0
    /\ drains >= 1

\* How many times v occurs in the sequence s.
Count(s, v) == Cardinality({i \in 1..Len(s) : s[i] = v})

\* How many slots of d hold the live value v.
Holds(d, v) == Cardinality({i \in DOMAIN d.arr : d.arr[i] = write(v)})

\* C12: every value pushed is released exactly once over the buffer's life.
\* At every moment a pushed value either is held by exactly one slot and was
\* not released, or is held by no slot and was released once (returned by
\* pop_front, destroyed by the eviction of a push before the new value is
\* written, or destroyed by the drop); nothing else is released; values
\* are released oldest first; once the buffer is dropped every value pushed
\* has been released, and the drop read no empty slot.
C12_ReleasedExactlyOnce ==
    /\ \A v \in 1..Len(hist) :
          Count(released, v) + Holds(deque, v) = 1
    /\ released = SubSeq(hist, 1, Len(released))
    /\ ~liveWrite
    /\ dropped =>
          /\ released = hist
          /\ Occupied(deque) = 0
          /\ ~uninitRead

\* C12 witness: a dropped buffer of capacity 3 whose values were released
\* in all three ways.
C12_Witness ==
    /\ dropped /\ Cap(deque) = 3
    /\ ways = {"evict", "pop_front", "drop"}
    /\ released = hist /\ Len(hist) > Cap(deque)

\* Slot i of d lies in the circular range [start, end), or d is full.
InRange(d, i) ==
    IF d.full THEN TRUE
    ELSE IF d.start <= d.end THEN d.start <= i /\ i < d.end
    ELSE i >= d.start \/ i < d.end

\* C13: slot i holds a live value iff i lies in the circular range
\* [start, end) when not full, or for every i when full; what pop_front and
\* the iterator would read, and every read made so far, is an occupied
\* slot; the slot a push would write, and every slot written so far, is
\* empty at the moment of the write.
C13_OccupiedIffInRange ==
    /\ \A i \in DOMAIN deque.arr : (deque.arr[i] # uninit) <=> InRange(deque, i)
    /\ pop_front(deque).ret # <<uninit>>
    /\ \A i \in 1..Len(iter(deque)) : iter(deque)[i] # uninit
    /\ push_evict(deque).ret # <<uninit>>
    /\ LET d1 == push_evict(deque).d IN d1.arr[d1.end] = uninit
    /\ ~uninitRead
    /\ ~liveWrite

\* C13 witness: a wrapped, partly filled buffer of capacity 3 (end < start)
\* reached through an eviction and pops, just iterated.
C13_Witness ==
    /\ ~dropped /\ Cap(deque) = 3
    /\ deque.end < deque.start
    /\ snapValid /\ Len(snap) = 2
    /\ ways = {"evict", "pop_front"}

\* C14: for every capacity and after any sequence of pushes and pops,
\* 0 <= start < N and 0 <= end < N, and full only where start = end; a push
\* advances end by one and a pop_front that returns an element advances
\* start by one, an index at N-1 advancing to 0.
C14_IndicesInRange ==
    /\ [](/\ deque.start \in 0..(Cap(deque) - 1)
          /\ deque.end \in 0..(Cap(deque) - 1)
          /\ deque.full => deque.start = deque.end
          /\ advance(Cap(deque) - 1, Cap(deque)) = 0)
    /\ [][/\ (hist' # hist) =>
                deque'.end = IF deque.end = Cap(deque) - 1 THEN 0
                             ELSE deque.end + 1
          /\ (released' # released /\ hist' = hist /\ ~dropped') =>
                deque'.start = IF deque.start = Cap(deque) - 1 THEN 0
                               ELSE deque.start + 1]_vars

\* C14 witness: capacity 3, three pushes and three pops: both indices went
\* from N-1 to 0.
C14_Witness ==
    /\ ~dropped /\ Cap(deque) = 3
    /\ Len(hist) = 3 /\ Len(released) = 3
    /\ deque.start = 0 /\ deque.end = 0 /\ ~deque.full

(***************************************************************************)
(* Claims about the wake cycle (checked under Spec, C6 under LiveSpec).    *)
(***************************************************************************)
\* What iterating the store yields: the outcomes of reading its slots.
Contents(d) == assume_init_all(iter(d), Measurement)

\* The cycle's POST was made and not answered with a status in [200,300):
\* a transport error (no status) or another status.
UploadFailed == "post" \in calls /\ status \notin 200..299

\* The cycle's POST was answered with a status in [200,300).
UploadConfirmed == "post" \in calls /\ status \in 200..299

\* The device is powered off: it is in deep sleep.
PoweredOff == pc = "sleep"

\* The records of the store at the start of the cycle that an append leaves
\* in it: all of them, or all but the oldest when the store was full.
KeptOnAppend ==
    IF Len(Records(startStore)) = MAX_RECORDED_MEASUREMENTS
    THEN Tail(Records(startStore))
    ELSE Records(startStore)

\* C2 as claimed: after a failed upload the store at power-off holds every
\* record it held at the start of the cycle, in order, followed by the
\* record appended in the cycle, for every occupancy at the start.
C2_Original ==
    (PoweredOff /\ UploadFailed) =>
       Contents(MEASUREMENTS) = {Records(startStore) \o appended}

\* C2 as amended: after a failed upload (status outside [200,300), or a
\* transport error) the store at power-off holds the records it held at the
\* start of the cycle, in order, without the oldest one if the store was
\* full at the start, followed by the record appended in the cycle.
C2_FailedUploadKeepsRecords ==
    (PoweredOff /\ UploadFailed) =>
       /\ appended # <<>>
       /\ Contents(MEASUREMENTS) = {KeptOnAppend \o appended}

\* C2 witness: a failed upload in a cycle that began with a full store.
C2_Witness ==
    /\ PoweredOff /\ UploadFailed
    /\ Len(Records(startStore)) = MAX_RECORDED_MEASUREMENTS
    /\ Contents(MEASUREMENTS) = {Tail(Records(startStore)) \o appended}

\* C3: after a cycle whose POST returned a status in [200,300) the store is
\* empty at power-off (len() = 0, is_empty(), nothing iterated), and the
\* next cycle's append leaves an occupancy of exactly 1.
C3_ConfirmedUploadEmptiesStore ==
    /\ (PoweredOff /\ UploadConfirmed) =>
          /\ len(MEASUREMENTS) = 0
          /\ is_empty(MEASUREMENTS)
          /\ iter(MEASUREMENTS) = <<>>
    /\ (prevOk /\ appended # <<>> /\ calls = {}) =>
          /\ len(MEASUREMENTS) = 1
          /\ Contents(MEASUREMENTS) = {appended}

\* C3 witness: the cycle after a confirmed upload has appended its record.
C3_Witness ==
    /\ prevOk /\ appended # <<>> /\ PoweredOff
    /\ len(MEASUREMENTS) = 1
    /\ reset_reason = "DeepSleep"

\* A step of a wake cycle that appends this cycle's record to the store.
IsAppend ==
    /\ pc = "read" /\ appended = <<>> /\ appended' # <<>>
    /\ Contents(MEASUREMENTS') = {KeptOnAppend \o appended'}

\* A step that resets the store after the cycle's POST returned 2xx.
IsConfirmedClear ==
    /\ pc = "clear" /\ UploadConfirmed
    /\ is_empty(MEASUREMENTS')

\* C4: in a wake cycle the store is reset to empty only after the cycle's
\* POST returned a status in [200,300): the only steps of a cycle that
\* change the store are the append and that reset, and from the snapshot
\* taken for the upload to the confirmation the store is what was
\* snapshotted.
C4_ClearOnlyAfterConfirmation ==
    /\ [][(pc # "sleep" /\ MEASUREMENTS' # MEASUREMENTS) =>
             (IsAppend \/ IsConfirmedClear)]_vars
    /\ [](pc \in {"send", "clear"} =>
             /\ Contents(MEASUREMENTS) = {measurements}
             /\ Contents(MEASUREMENTS) = {KeptOnAppend \o appended})

\* C4 witness: a cycle that uploaded two or more records, got 2xx and has
\* reset the store.
C4_Witness ==
    /\ pc = "exit" /\ UploadConfirmed /\ result = <<"Ok">>
    /\ is_empty(MEASUREMENTS)
    /\ Len(KeptOnAppend) >= 1

\* The occupancy right after this cycle's append.
OccupancyAfterAppend == Len(KeptOnAppend) + 1

\* C5: in a cycle where the occupancy right after the append is below
\* MIN_RECORDED_MEASUREMENTS no network-join, time-sync or upload call is
\* made: run returns Ok from the append, and main arms the timer and sleeps.
C5_BelowMinimumNoNetwork ==
    (appended # <<>> /\ OccupancyAfterAppend < MIN_RECORDED_MEASUREMENTS) =>
       /\ pc \in {"exit", "sleep"}
       /\ result = <<"Ok">>
       /\ calls = {}
       /\ status = 0

\* C5 witness: such a cycle, asleep, with the largest occupancy below the
\* minimum.
C5_Witness ==
    /\ PoweredOff /\ appended # <<>>
    /\ OccupancyAfterAppend = MIN_RECORDED_MEASUREMENTS - 1
    /\ len(MEASUREMENTS) = MIN_RECORDED_MEASUREMENTS - 1
    /\ calls = {}
    /\ timer = MEASUREMENT_INTERVAL

\* run is blocked: in a recv on an empty channel, or polling a time sync
\* that has not completed.
Blocked ==
    \/ pc = "wait_started" /\ wifi_started = 0
    \/ pc = "wait_connected" /\ wifi_connected = <<>>
    \/ pc = "wait_ip" /\ ip_assigned = 0
    \/ pc = "sntp_poll" /\ sntp_status # "Completed"

\* C6: every wake cycle eventually arms the wake timer for the
\* fixed interval and enters retention sleep; no cycle stays awake forever.
C6_Original ==
    (pc # "sleep") ~> (pc = "sleep" /\ timer = MEASUREMENT_INTERVAL)

\* What the code does guarantee towards C6: a wake cycle stays awake only
\* while run is blocked waiting for a notification (station started,
\* connected or disconnected, IP assigned) or for the time sync to complete;
\* from every other point of a cycle, whatever run returns, main arms the
\* wake timer for the fixed interval and enters retention sleep.
C6_SleepsUnlessBlocked ==
    /\ (pc # "sleep") ~>
          ((pc = "sleep" /\ timer = MEASUREMENT_INTERVAL) \/ Blocked)
    /\ [](pc = "exit" => result # <<>>)
    /\ [](pc = "sleep" => (timer = MEASUREMENT_INTERVAL /\ result # <<>>))

\* C6: a cycle asleep with the timer armed after run returned an error.
C6_Witness ==
    /\ PoweredOff /\ timer = MEASUREMENT_INTERVAL
    /\ result = <<"Err", "status">>

\* C7: if the analog read fails, the cycle goes to power-off with the store
\* identical to its state at the start of the cycle and without any
\* network-join, time-sync or upload call, whatever the occupancy.
C7_ReadFailureLeavesStore ==
    (result = <<"Err", "read">>) =>
       /\ pc \in {"exit", "sleep"}
       /\ MEASUREMENTS = startStore
       /\ appended = <<>>
       /\ calls = {}
       /\ status = 0

\* C7 witness: a failed read in a cycle that began with a full store.
C7_Witness ==
    /\ PoweredOff /\ result = <<"Err", "read">>
    /\ startStore.full
    /\ MEASUREMENTS = startStore

\* C8: at the start of a cycle begun by a wake from sleep the store (start,
\* end, full and every slot) equals the store at the previous power-off;
\* only a cold boot starts from the empty store.
C8_SleepRetainsStore ==
    /\ (reset_reason = "DeepSleep" /\ pc \in {"boot", "read"}) =>
          /\ MEASUREMENTS = sleepStore
          /\ MEASUREMENTS = startStore
    /\ (reset_reason = "PowerOn" /\ pc \in {"boot", "read"}) =>
          MEASUREMENTS = new(MAX_RECORDED_MEASUREMENTS)

\* C8 witness: a wake from sleep finds the full store it left.
C8_Witness ==
    /\ reset_reason = "DeepSleep" /\ pc = "read"
    /\ MEASUREMENTS.full
    /\ MEASUREMENTS = sleepStore

\* The elements of a sequence.
Range(s) == {s[i] : i \in 1..Len(s)}

\* The steps of a cycle whose network join, time sync and upload go through.
StepOrder ==
    <<"wifi_start", "recv_started", "wifi_connect", "recv_Ok", "recv_ip",
      "sntp", "sync_completed", "post">>

\* C15: within a cycle the network steps are strictly ordered: what run has
\* done is an initial part of start, receive 'started', connect, receive
\* 'connected', receive 'IP assigned', start time sync, sync completed, POST
\* (or stops at a received 'disconnected'); each receipt took a signal
\* that was sent, and no later step has run while run waits for a signal.
C15_StepsOrdered ==
    /\ \/ IsPrefix(steps, StepOrder)
       \/ steps = <<"wifi_start", "recv_started", "wifi_connect", "recv_Err">>
    /\ "recv_started" \in Range(steps) => sent.started # <<>>
    /\ "recv_Ok" \in Range(steps) =>
          (sent.connected # <<>> /\ Head(sent.connected) = "Ok")
    /\ "recv_ip" \in Range(steps) =>
          (sent.ip # <<>> /\ "recv_Ok" \in Range(steps))
    /\ "wifi_connect" \in calls => "recv_started" \in Range(steps)
    /\ "sntp" \in calls => "recv_ip" \in Range(steps)
    /\ "post" \in calls => "sync_completed" \in Range(steps)
    /\ pc = "wait_started" => steps = SubSeq(StepOrder, 1, 1)
    /\ pc = "wait_connected" => steps = SubSeq(StepOrder, 1, 3)
    /\ pc = "wait_ip" => steps = SubSeq(StepOrder, 1, 4)
    /\ pc = "sntp_poll" => steps = SubSeq(StepOrder, 1, 6)

\* C15 witness: a cycle that made every step, up to the POST.
C15_Witness ==
    /\ steps = StepOrder /\ "post" \in calls
    /\ pc = "exit"

\* C16 as claimed: whenever a 'disconnected' notification has been delivered
\* while run waits for the connection signal, the next step of run fails the
\* connecting step: run returns the error with the store and the calls made
\* as they were.
C16_Original ==
    [][(/\ pc = "wait_connected"
        /\ "Err" \in Range(wifi_connected)
        /\ pc' # pc) =>
          /\ pc' = "exit"
          /\ result' = <<"Err", "disconnected">>
          /\ MEASUREMENTS' = MEASUREMENTS
          /\ calls' = calls]_vars

\* C16 as amended: if a 'disconnected' notification is the first value
\* delivered on the connection channel in a cycle, then under every
\* interleaving the connecting step fails: run is not blocked, returns the
\* error when it receives, no time sync is started, no POST is issued, the
\* store stays as it was right after the append, and main goes to
\* power-off.
C16_DisconnectedFirstFails ==
    (sent.connected # <<>> /\ Head(sent.connected) = "Err") =>
       /\ pc \in {"wait_connected", "exit", "sleep"}
       /\ pc = "wait_connected" =>
             (wifi_connected # <<>> /\ Head(wifi_connected) = "Err")
       /\ pc \in {"exit", "sleep"} => result = <<"Err", "disconnected">>
       /\ "sntp" \notin calls /\ "post" \notin calls
       /\ status = 0 /\ request = <<>>
       /\ Contents(MEASUREMENTS) = {KeptOnAppend \o appended}

\* C16 witness: powered off after 'disconnected' then 'connected' were
\* delivered and run received the first.
C16_Witness ==
    /\ PoweredOff /\ result = <<"Err", "disconnected">>
    /\ sent.connected = <<"Err", "Ok">>
    /\ appended # <<>>

\* How many times v occurs in the steps of the cycle.
Taken(v) == Cardinality({i \in 1..Len(steps) : steps[i] = v})

\* C17 as claimed: each handoff channel carries at most one value per wake
\* cycle.
C17_Original ==
    /\ Len(sent.started) <= 1
    /\ Len(sent.connected) <= 1
    /\ Len(sent.ip) <= 1

\* C17 as amended: a handoff channel carries one value per event delivered
\* to its callback, which can be more than one in a cycle; run receives at
\* most once from each channel in a cycle, the first value sent, and what
\* was sent after it stays queued, never read, until run returns.
C17_ControllerTakesFirst ==
    /\ Taken("recv_started") <= 1
    /\ Taken("recv_Ok") + Taken("recv_Err") <= 1
    /\ Taken("recv_ip") <= 1
    /\ "recv_Ok" \in Range(steps) => Head(sent.connected) = "Ok"
    /\ "recv_Err" \in Range(steps) => Head(sent.connected) = "Err"
    /\ Subscribed =>
          /\ wifi_started = Len(sent.started) - Taken("recv_started")
          /\ wifi_connected =
                IF Taken("recv_Ok") + Taken("recv_Err") = 1
                THEN Tail(sent.connected) ELSE sent.connected
          /\ ip_assigned = Len(sent.ip) - Taken("recv_ip")

\* C17 witness: a cycle that went through to the POST although two values
\* were sent into the connection channel and two into the IP channel.
C17_Witness ==
    /\ sent.connected = <<"Ok", "Err">>
    /\ Len(sent.ip) = 2
    /\ "post" \in calls
    /\ Taken("recv_Ok") = 1 /\ Taken("recv_ip") = 1

\* The index of the first occurrence of ch in s.
FirstIndex(s, ch) ==
    CHOOSE i \in 1..Len(s) : s[i] = ch /\ \A j \in 1..(i - 1) : s[j] # ch

\* The lines of a text: what stands before each "\n" (and after the last).
RECURSIVE SplitLines(_)
SplitLines(s) ==
    IF s = <<>> THEN <<>>
    ELSE IF "\n" \notin Range(s) THEN <<s>>
    ELSE LET i == FirstIndex(s, "\n")
         IN  <<SubSeq(s, 1, i - 1)>> \o SplitLines(SubSeq(s, i + 1, Len(s)))

IsDigits(ds) == ds # <<>> /\ \A i \in 1..Len(ds) : ds[i] \in Range(DigitChars)

DigitValue(c) == (CHOOSE k \in 1..10 : DigitChars[k] = c) - 1

\* The number a sequence of decimal digits denotes.
RECURSIVE ParseNat(_)
ParseNat(ds) ==
    IF ds = <<>> THEN 0
    ELSE 10 * ParseNat(SubSeq(ds, 1, Len(ds) - 1)) + DigitValue(ds[Len(ds)])

IsInt(ds) == ds # <<>> /\ IsDigits(IF ds[1] = "-" THEN Tail(ds) ELSE ds)

ParseInt(ds) == IF ds[1] = "-" THEN -ParseNat(Tail(ds)) ELSE ParseNat(ds)

\* A line of the body taken apart: the text between the prefix and the
\* first space, the text after it without its last nine characters, and
\* these nine characters.
Fields(line) ==
    LET rest == SubSeq(line, Len(LINE_PREFIX) + 1, Len(line))
        i    == FirstIndex(rest, " ")
        t    == SubSeq(rest, i + 1, Len(rest))
    IN  [value |-> SubSeq(rest, 1, i - 1),
         seconds |-> SubSeq(t, 1, Len(t) - 9),
         nanos |-> SubSeq(t, Len(t) - 8, Len(t))]

\* line is <prefix><integer> <integer>000000000.
WellFormed(line) ==
    /\ IsPrefix(LINE_PREFIX, line)
    /\ " " \in Range(SubSeq(line, Len(LINE_PREFIX) + 1, Len(line)))
    /\ IsDigits(Fields(line).value)
    /\ IsInt(Fields(line).seconds)
    /\ Fields(line).nanos = <<"0", "0", "0", "0", "0", "0", "0", "0", "0">>

\* The record a well-formed line carries, given the offset of the cycle.
DecodeLine(line, offset) ==
    [value |-> ParseNat(Fields(line).value),
     time |-> ParseInt(Fields(line).seconds) - offset]

\* The records a body carries, in the order of its lines.
DecodeBody(body, offset) ==
    [i \in 1..Len(SplitLines(body)) |-> DecodeLine(SplitLines(body)[i], offset)]

\* The records of the store when the cycle's upload is made.
AtUpload == KeptOnAppend \o appended

\* C18: the body of the single POST of a cycle has exactly one line per
\* record held in the store at upload time, oldest first; line i is
\* <prefix><value> <seconds>000000000 with the value of record i and
\* seconds = its time + offset, the offset being absolute_now minus the
\* device clock, computed once in the cycle; Content-Length is the body's
\* length in bytes.
C18_PostBody ==
    request # <<>> =>
       LET body  == request[1].body
           lines == SplitLines(body)
       IN  /\ Taken("post") = 1
           /\ time_offset # <<>> /\ (time_offset[1] + clock) \in UtcNow
           /\ (pc = "clear" \/ UploadFailed) =>
                 Contents(MEASUREMENTS) = {AtUpload}
           /\ Cardinality({i \in 1..Len(body) : body[i] = "\n"}) = Len(AtUpload)
           /\ body[Len(body)] = "\n"
           /\ Len(lines) = Len(AtUpload)
           /\ \A i \in 1..Len(lines) :
                 /\ WellFormed(lines[i])
                 /\ ParseNat(Fields(lines[i]).value) = AtUpload[i].value
                 /\ ParseInt(Fields(lines[i]).seconds) =
                       AtUpload[i].time + time_offset[1]
           /\ IsDigits(request[1].content_length)
           /\ ParseNat(request[1].content_length) = Len(body)

\* C18 witness: the POST of a full store, with an offset that is not 0.
C18_Witness ==
    /\ request # <<>> /\ time_offset # <<>> /\ time_offset[1] # 0
    /\ Len(SplitLines(request[1].body)) = MAX_RECORDED_MEASUREMENTS
    /\ Len(AtUpload) = MAX_RECORDED_MEASUREMENTS

\* The records that a step takes out of the store.
Leaves ==
    {r \in Range(Records(MEASUREMENTS)) : r \notin Range(Records(MEASUREMENTS'))}

\* C19: whenever records leave the store, either the store is cleared after
\* the POST of the same cycle was answered 2xx, and the records discarded
\* are exactly the records carried in the body of that POST, in the same
\* order, or the oldest record is evicted by an append to a full store; the
\* records uploaded with confirmation and the records in the store were all
\* appended, and outside the clearing step no record is in both.
C19_ClearedAreUploaded ==
    /\ [][Leaves # {} =>
            \/ /\ pc = "clear" /\ request # <<>> /\ status \in 200..299
               /\ Records(MEASUREMENTS) =
                     DecodeBody(request[1].body, time_offset[1])
               /\ is_empty(MEASUREMENTS')
            \/ /\ pc = "read" /\ MEASUREMENTS.full
               /\ Leaves = {Head(Records(MEASUREMENTS))}
               /\ Records(MEASUREMENTS') =
                     Tail(Records(MEASUREMENTS)) \o appended']_vars
    /\ [](/\ Range(Records(MEASUREMENTS)) \cup Range(uploaded)
                \subseteq Range(sampled)
          /\ pc # "clear" =>
                Range(Records(MEASUREMENTS)) \cap Range(uploaded) = {})

\* C19 witness: a full store was uploaded, confirmed and cleared.
C19_Witness ==
    /\ pc = "exit" /\ UploadConfirmed /\ is_empty(MEASUREMENTS)
    /\ request # <<>>
    /\ Len(DecodeBody(request[1].body, time_offset[1])) =
          MAX_RECORDED_MEASUREMENTS

\* The number of the current wake cycle, the cold boot being cycle 1.
Cycle == (clock \div MEASUREMENT_INTERVAL) + 1

\* C20: from a cold boot, as long as every read, connection, time sync and
\* upload succeeds, the network is joined and an upload made in exactly the
\* cycles MIN, 2*MIN, ..., each upload carries exactly MIN records, and the
\* records uploaded are the records appended, each once and in order: at
\* power-off all of them up to the last multiple of MIN, the store holding
\* the rest.
C20_UploadEveryMinCycles ==
    (~failed /\ result \in {<<>>, <<"Ok">>}) =>
       LET done == Cycle - (Cycle % MIN_RECORDED_MEASUREMENTS)
       IN  /\ calls # {} => Cycle % MIN_RECORDED_MEASUREMENTS = 0
           /\ request # <<>> =>
                 /\ Len(SplitLines(request[1].body)) = MIN_RECORDED_MEASUREMENTS
                 /\ Len(AtUpload) = MIN_RECORDED_MEASUREMENTS
           /\ IsPrefix(uploaded, sampled)
           /\ \A i \in 1..Len(sampled) :
                 sampled[i].time = (i - 1) * MEASUREMENT_INTERVAL
           /\ pc \in {"exit", "sleep"} =>
                 /\ UploadConfirmed <=> (Cycle % MIN_RECORDED_MEASUREMENTS = 0)
                 /\ Len(sampled) = Cycle
                 /\ uploaded = SubSeq(sampled, 1, done)
                 /\ Records(MEASUREMENTS) = SubSeq(sampled, done + 1, Cycle)

\* C20 witness: powered off after the second upload, in cycle 2*MIN, every
\* step of every cycle having succeeded.
C20_Witness ==
    /\ PoweredOff /\ ~failed /\ result = <<"Ok">>
    /\ Cycle = 2 * MIN_RECORDED_MEASUREMENTS
    /\ Len(uploaded) = 2 * MIN_RECORDED_MEASUREMENTS
    /\ UploadConfirmed

=============================================================================
